---- MODULE Spec2Model ----
(***************************************************************************)
(* scipy.fftpack.realtransforms: the DCT dispatch layer (dct1, dct2, dct3  *)
(* and _dct) over the native _fftpack kernels, and the atexit teardown of  *)
(* the kernels' caches.                                                    *)
(*                                                                         *)
(* An ndarray is abstracted to                                             *)
(*   dtype : its element type,                                             *)
(*   shape : the size of each axis, as a sequence,                         *)
(*   axes  : for each position, the axis of the caller's array that sits   *)
(*           there (0-based, so a swap of axes is visible),                *)
(*   xf    : the kernel applications it went through, each with the axis   *)
(*           of the caller's array it transformed.                         *)
(* Python's None is the empty tuple <<>>, a supplied value v is <<v>>.     *)
(***************************************************************************)
EXTENDS Integers, Sequences, FiniteSets, TLC

VARIABLES pc, call, ret, cache, released, exited, ncalls

vars == <<pc, call, ret, cache, released, exited, ncalls>>

\* ------------------------------------------------------------------ bounds
MaxRank == 3
MaxN == 1

\* Transforms one process performs before it exits.
MaxCalls == 1

\* ------------------------------------------------------------------ inputs
None == <<>>

Dtypes == {"float64", "float32", "int64", "complex128"}

ComplexDtypes == {"complex128"}

Ranks == 0..MaxRank

Types == 1..4

Lengths == {None} \cup {<<k>> : k \in 1..MaxN}

NormModes == {None, <<"ortho">>, <<"foo">>, <<"">>}

AxesFor(r) == (0 - (r + 1))..r

\* The caller's array of rank r: axis i (0-based) has size i + 1.
MkArray(dtype, r) ==
    [dtype |-> dtype,
     shape |-> [i \in 1..r |-> i],
     axes  |-> [i \in 1..r |-> i - 1],
     xf    |-> <<>>]

NoArray == [dtype |-> "none", shape |-> <<>>, axes |-> <<>>, xf |-> <<>>]

\* ------------------------------------------------------------ the kernels
DoubleKernels == {"ddct1", "ddct2", "ddct3"}

SingleKernels == {"dct1", "dct2", "dct3"}

Kernels == DoubleKernels \cup SingleKernels

\* atexit.register calls of the module, in registration order.
AtExitHandlers == <<"destroy_ddct1_cache", "destroy_ddct2_cache">>

\* The cache a destroy_<k>_cache routine releases.
DestroyTarget(h) ==
    CASE h = "destroy_ddct1_cache" -> "ddct1"
      [] h = "destroy_ddct2_cache" -> "ddct2"

\* The cache a kernel fills on its first use.
CacheOf(f) == f

\* A native kernel: transforms the last axis of its argument.
Kernel(f, a, n, nm, overwrite_x) ==
    [a EXCEPT !.xf = Append(@, [f |-> f, n |-> n, nm |-> nm,
                                 axis |-> a.axes[Len(a.axes)]])]

\* ------------------------------------------------------------ numpy, python
\* Faulty variant: the realness check lets every array through.
IsRealObj_AlwaysReal(tmp) == TRUE

IsRealObj(tmp) == tmp.dtype \notin ComplexDtypes

\* s[i] of a python tuple: in range for -len <= i < len.
InRange(s, i) == (0 - Len(s)) <= i /\ i < Len(s)

Pos(s, i) == (IF i < 0 THEN i + Len(s) ELSE i) + 1

Item(s, i) == s[Pos(s, i)]

SwapSeq(s, p, q) ==
    [k \in 1..Len(s) |-> IF k = p THEN s[q] ELSE IF k = q THEN s[p] ELSE s[k]]

swapaxes(a, i, j) ==
    [a EXCEPT !.shape = SwapSeq(@, Pos(a.shape, i), Pos(a.shape, j)),
              !.axes  = SwapSeq(@, Pos(a.axes, i), Pos(a.axes, j))]

\* Python truth value of the normalize argument.
Truthy(v) == v # None /\ v # <<"">>

\* ------------------------------------------------------------------- _dct
Raise(e, line) ==
    [err |-> e, line |-> line, out |-> NoArray, events |-> <<>>, kcalls |-> <<>>]

\* Faulty variant: a supplied n equal to the size along the axis is accepted.
TransformLength_AcceptEqual(tmp, n, axis) ==
    IF n = None
    THEN IF InRange(tmp.shape, axis)
         THEN [err |-> "none", line |-> 154, n |-> Item(tmp.shape, axis)]
         ELSE [err |-> "IndexError", line |-> 154, n |-> 0]
    ELSE IF InRange(tmp.shape, axis) /\ n[1] = Item(tmp.shape, axis)
         THEN [err |-> "none", line |-> 154, n |-> n[1]]
         ELSE [err |-> "TypeError", line |-> 156, n |-> 0]

\* n = tmp.shape[axis] when n is None, else raise NotImplemented(...):
\* NotImplemented is not an exception class and is not callable, so the
\* raise statement ends in a TypeError.
TransformLength(tmp, n, axis) ==
    IF n = None
    THEN IF InRange(tmp.shape, axis)
         THEN [err |-> "none", line |-> 154, n |-> Item(tmp.shape, axis)]
         ELSE [err |-> "IndexError", line |-> 154, n |-> 0]
    ELSE [err |-> "TypeError", line |-> 156, n |-> 0]

\* Faulty variant: any other real dtype is handed to the double kernels.
SelectKernel_CoerceToDouble(dtype, type) ==
    IF dtype # "float32"
    THEN CASE type = 1 -> [err |-> "none", line |-> 160, f |-> "ddct1"]
           [] type = 2 -> [err |-> "none", line |-> 162, f |-> "ddct2"]
           [] type = 3 -> [err |-> "none", line |-> 164, f |-> "ddct3"]
           [] OTHER    -> [err |-> "ValueError", line |-> 166, f |-> "none"]
    ELSE CASE type = 1 -> [err |-> "none", line |-> 169, f |-> "dct1"]
           [] type = 2 -> [err |-> "none", line |-> 171, f |-> "dct2"]
           [] type = 3 -> [err |-> "none", line |-> 173, f |-> "dct3"]
           [] OTHER    -> [err |-> "ValueError", line |-> 175, f |-> "none"]

\* Faulty variant: the float32 branch of type 2 picks the double kernel.
SelectKernel_SingleToDouble(dtype, type) ==
    IF dtype = "float64"
    THEN CASE type = 1 -> [err |-> "none", line |-> 160, f |-> "ddct1"]
           [] type = 2 -> [err |-> "none", line |-> 162, f |-> "ddct2"]
           [] type = 3 -> [err |-> "none", line |-> 164, f |-> "ddct3"]
           [] OTHER    -> [err |-> "ValueError", line |-> 166, f |-> "none"]
    ELSE IF dtype = "float32"
    THEN CASE type = 1 -> [err |-> "none", line |-> 169, f |-> "dct1"]
           [] type = 2 -> [err |-> "none", line |-> 171, f |-> "ddct2"]
           [] type = 3 -> [err |-> "none", line |-> 173, f |-> "dct3"]
           [] OTHER    -> [err |-> "ValueError", line |-> 175, f |-> "none"]
    ELSE [err |-> "ValueError", line |-> 177, f |-> "none"]

SelectKernel(dtype, type) ==
    IF dtype = "float64"
    THEN CASE type = 1 -> [err |-> "none", line |-> 160, f |-> "ddct1"]
           [] type = 2 -> [err |-> "none", line |-> 162, f |-> "ddct2"]
           [] type = 3 -> [err |-> "none", line |-> 164, f |-> "ddct3"]
           [] OTHER    -> [err |-> "ValueError", line |-> 166, f |-> "none"]
    ELSE IF dtype = "float32"
    THEN CASE type = 1 -> [err |-> "none", line |-> 169, f |-> "dct1"]
           [] type = 2 -> [err |-> "none", line |-> 171, f |-> "dct2"]
           [] type = 3 -> [err |-> "none", line |-> 173, f |-> "dct3"]
           [] OTHER    -> [err |-> "ValueError", line |-> 175, f |-> "none"]
    ELSE [err |-> "ValueError", line |-> 177, f |-> "none"]

NormalizeMode(normalize) ==
    IF Truthy(normalize)
    THEN IF normalize = <<"ortho">>
         THEN [err |-> "none", line |-> 181, nm |-> 1]
         ELSE [err |-> "ValueError", line |-> 183, nm |-> 0]
    ELSE [err |-> "none", line |-> 185, nm |-> 0]

KCall(f, a, n, nm, overwrite_x) ==
    [f |-> f, n |-> n, nm |-> nm, overwrite_x |-> overwrite_x, arg |-> a]

\* Faulty variant: the axes are not swapped back after the kernel.
Dispatch_NoSwapBack(tmp, f, n, nm, overwrite_x, axis) ==
    IF axis = -1 \/ axis = Len(tmp.shape) - 1
    THEN [err |-> "none", line |-> 188,
          out |-> Kernel(f, tmp, n, nm, overwrite_x),
          events |-> <<f>>,
          kcalls |-> <<KCall(f, tmp, n, nm, overwrite_x)>>]
    ELSE LET t1 == swapaxes(tmp, axis, -1)
             t2 == Kernel(f, t1, n, nm, overwrite_x)
         IN  [err |-> "none", line |-> 193,
              out |-> t2,
              events |-> <<"swapaxes", f>>,
              kcalls |-> <<KCall(f, t1, n, nm, overwrite_x)>>]

Dispatch(tmp, f, n, nm, overwrite_x, axis) ==
    IF axis = -1 \/ axis = Len(tmp.shape) - 1
    THEN [err |-> "none", line |-> 188,
          out |-> Kernel(f, tmp, n, nm, overwrite_x),
          events |-> <<f>>,
          kcalls |-> <<KCall(f, tmp, n, nm, overwrite_x)>>]
    ELSE LET t1 == swapaxes(tmp, axis, -1)
             t2 == Kernel(f, t1, n, nm, overwrite_x)
         IN  [err |-> "none", line |-> 194,
              out |-> swapaxes(t2, axis, -1),
              events |-> <<"swapaxes", f, "swapaxes">>,
              kcalls |-> <<KCall(f, t1, n, nm, overwrite_x)>>]

\* Faulty variant: the normalize argument is checked after the kernel ran.
_dct_KernelBeforeNormalize(x, type, n, axis, overwrite_x, normalize) ==
    LET tmp == x
    IN  IF ~IsRealObj(tmp) THEN Raise("TypeError", 151)
        ELSE LET L == TransformLength(tmp, n, axis)
             IN  IF L.err # "none" THEN Raise(L.err, L.line)
        ELSE LET K == SelectKernel(tmp.dtype, type)
             IN  IF K.err # "none" THEN Raise(K.err, K.line)
        ELSE LET M == NormalizeMode(normalize)
                 D == Dispatch(tmp, K.f, L.n, 0, overwrite_x, axis)
             IN  IF M.err # "none"
                 THEN [err |-> M.err, line |-> M.line, out |-> NoArray,
                       events |-> D.events, kcalls |-> D.kcalls]
        ELSE Dispatch(tmp, K.f, L.n, M.nm, overwrite_x, axis)

_dct(x, type, n, axis, overwrite_x, normalize) ==
    LET tmp == x
    IN  IF ~IsRealObj(tmp) THEN Raise("TypeError", 151)
        ELSE LET L == TransformLength(tmp, n, axis)
             IN  IF L.err # "none" THEN Raise(L.err, L.line)
        ELSE LET K == SelectKernel(tmp.dtype, type)
             IN  IF K.err # "none" THEN Raise(K.err, K.line)
        ELSE LET M == NormalizeMode(normalize)
             IN  IF M.err # "none" THEN Raise(M.err, M.line)
        ELSE Dispatch(tmp, K.f, L.n, M.nm, overwrite_x, axis)

dct1(x, n, axis, norm) == _dct(x, 1, n, axis, 0, norm)

dct2(x, n, axis, norm) == _dct(x, 2, n, axis, 0, norm)

dct3(x, n, axis, norm) == _dct(x, 3, n, axis, 0, norm)

\* ------------------------------------------------------------ the process
NoCall == [x |-> NoArray, type |-> 0, n |-> None, axis |-> 0,
           overwrite_x |-> 0, normalize |-> None]

NoRet == Raise("none", 0)

KernelsIn(r) == {r.kcalls[i].f : i \in 1..Len(r.kcalls)}

\* The state after the module is imported: handlers registered, no kernel
\* used yet.
Init ==
    /\ pc = "idle"
    /\ call = NoCall
    /\ ret = NoRet
    /\ cache = [k \in Kernels |-> "absent"]
    /\ released = [k \in Kernels |-> 0]
    /\ exited = FALSE
    /\ ncalls = 0

\* One synchronous call: the whole body runs, the kernel it reaches fills
\* its cache.
Invoke(x, type, n, axis, overwrite_x, normalize, r) ==
    /\ pc' = "returned"
    /\ ncalls' = ncalls + 1
    /\ call' = [x |-> x, type |-> type, n |-> n, axis |-> axis,
                overwrite_x |-> overwrite_x, normalize |-> normalize]
    /\ ret' = r
    /\ cache' = [k \in Kernels |->
                    IF \E f \in KernelsIn(r) : CacheOf(f) = k
                    THEN "live" ELSE cache[k]]
    /\ UNCHANGED <<released, exited>>

Call_dct1 ==
    \E d \in Dtypes, r \in Ranks, n \in Lengths, norm \in NormModes :
      \E axis \in AxesFor(r) :
        /\ pc = "idle" /\ ~exited /\ ncalls < MaxCalls
        /\ Invoke(MkArray(d, r), 1, n, axis, 0, norm,
               dct1(MkArray(d, r), n, axis, norm))

Call_dct2 ==
    \E d \in Dtypes, r \in Ranks, n \in Lengths, norm \in NormModes :
      \E axis \in AxesFor(r) :
        /\ pc = "idle" /\ ~exited /\ ncalls < MaxCalls
        /\ Invoke(MkArray(d, r), 2, n, axis, 0, norm,
               dct2(MkArray(d, r), n, axis, norm))

Call_dct3 ==
    \E d \in Dtypes, r \in Ranks, n \in Lengths, norm \in NormModes :
      \E axis \in AxesFor(r) :
        /\ pc = "idle" /\ ~exited /\ ncalls < MaxCalls
        /\ Invoke(MkArray(d, r), 3, n, axis, 0, norm,
               dct3(MkArray(d, r), n, axis, norm))

Call__dct ==
    \E d \in Dtypes, r \in Ranks, n \in Lengths, norm \in NormModes :
      \E axis \in AxesFor(r), type \in Types :
        /\ pc = "idle" /\ ~exited /\ ncalls < MaxCalls
        /\ Invoke(MkArray(d, r), type, n, axis, 0, norm,
               _dct(MkArray(d, r), type, n, axis, 0, norm))

\* The result (or the exception) goes to the caller; the dispatcher keeps
\* nothing of the call.
Return ==
    /\ pc = "returned"
    /\ pc' = "idle"
    /\ call' = NoCall
    /\ ret' = NoRet
    /\ UNCHANGED <<cache, released, exited, ncalls>>

Runs(k) == Cardinality({i \in 1..Len(AtExitHandlers) :
                           DestroyTarget(AtExitHandlers[i]) = k})

\* Interpreter exit: every registered handler runs once.
Exit ==
    /\ pc = "idle"
    /\ ~exited
    /\ exited' = TRUE
    /\ cache' = [k \in Kernels |->
                    IF Runs(k) > 0 /\ cache[k] = "live" THEN "freed" ELSE cache[k]]
    /\ released' = [k \in Kernels |->
                    IF cache[k] = "live" THEN released[k] + Runs(k) ELSE released[k]]
    /\ UNCHANGED <<pc, call, ret, ncalls>>

Next == Call_dct1 \/ Call_dct2 \/ Call_dct3 \/ Call__dct \/ Return \/ Exit

Spec == Init /\ [][Next]_vars

\* ----------------------------------------------------------------- claims
Returned == pc = "returned"

FloatDtypes == {"float64", "float32"}

AxisInRange == InRange(call.x.shape, call.axis)

SizeAlongAxis == Item(call.x.shape, call.axis)

\* Precision and variant a native kernel implements.
KernelPrecision(f) == IF f \in DoubleKernels THEN "float64" ELSE "float32"

KernelVariant(f) ==
    CASE f \in {"ddct1", "dct1"} -> 1
      [] f \in {"ddct2", "dct2"} -> 2
      [] f \in {"ddct3", "dct3"} -> 3

KernelEvents(r) == {i \in 1..Len(r.events) : r.events[i] \in Kernels}

NoOutput(r) == r.kcalls = <<>> /\ r.events = <<>> /\ r.out = NoArray

\* C1 (as stated): a call that gives a length n different from the size
\* along the transform axis fails with the not-implemented error, whatever
\* the other arguments are, and invokes no kernel.
C1_LengthMismatchNotImplemented ==
    (Returned /\ call.n # None /\ AxisInRange /\ call.n[1] # SizeAlongAxis)
        => (ret.err = "NotImplementedError" /\ ret.kcalls = <<>>)

C3_ComplexRejected ==
    (Returned /\ call.x.dtype \in ComplexDtypes)
        => (ret.err = "TypeError" /\ NoOutput(ret))

C3_Witness ==
    /\ Returned /\ call.x.dtype \in ComplexDtypes
    /\ call.type = 3 /\ call.n = None /\ ~AxisInRange
    /\ call.normalize = <<"foo">>
    /\ ret.err = "TypeError"

\* C4 (as stated): once the input-type, length, precision and variant
\* checks pass, None gives kernel flag 0, 'ortho' gives kernel flag 1 and
\* every other supplied normalization fails with a ValueError and no kernel.
C4_NormalizationThreeOutcomes ==
    (Returned /\ IsRealObj(call.x) /\ call.n = None /\ AxisInRange
       /\ call.x.dtype \in FloatDtypes /\ call.type \in 1..3)
        => /\ call.normalize = None
                => (ret.err = "none" /\ ret.kcalls[1].nm = 0)
           /\ call.normalize = <<"ortho">>
                => (ret.err = "none" /\ ret.kcalls[1].nm = 1)
           /\ call.normalize \notin {None, <<"ortho">>}
                => (ret.err = "ValueError" /\ ret.kcalls = <<>>)

C6_UsedCachesReleasedOnce ==
    exited => \A k \in Kernels :
                 cache[k] # "absent" => (cache[k] = "freed" /\ released[k] = 1)

\* C8: a call that reaches a kernel invokes exactly one kernel, once, and
\* it is the kernel of the input's precision and of the requested variant;
\* the lookup is total and injective over the six (precision, variant)
\* pairs.
C8_KernelMatchesPrecisionAndVariant ==
    /\ (Returned /\ (ret.kcalls # <<>> \/ KernelEvents(ret) # {}))
          => /\ Len(ret.kcalls) = 1
             /\ Cardinality(KernelEvents(ret)) = 1
             /\ \A i \in KernelEvents(ret) : ret.events[i] = ret.kcalls[1].f
             /\ ret.kcalls[1].f \in Kernels
             /\ call.x.dtype \in FloatDtypes
             /\ call.type \in 1..3
             /\ KernelPrecision(ret.kcalls[1].f) = call.x.dtype
             /\ KernelVariant(ret.kcalls[1].f) = call.type
             /\ ret.kcalls[1].arg.dtype = call.x.dtype
    /\ \A d1 \in FloatDtypes, t1 \in 1..3 :
          /\ SelectKernel(d1, t1).err = "none"
          /\ SelectKernel(d1, t1).f \in Kernels
          /\ \A d2 \in FloatDtypes, t2 \in 1..3 :
                SelectKernel(d1, t1).f = SelectKernel(d2, t2).f
                    => (d1 = d2 /\ t1 = t2)

C8_Witness ==
    /\ Returned /\ call.x.dtype = "float32" /\ call.type = 2
    /\ Len(ret.kcalls) = 1 /\ ret.kcalls[1].f = "dct2"

\* C9: a call that ends in an error has invoked no kernel, swapped no
\* axes and produced no output; a call that passes every check invokes the
\* kernel exactly once and returns an array.
C9_ErrorsBeforeKernel ==
    Returned =>
        /\ ret.err # "none" => NoOutput(ret)
        /\ ret.err = "none"
              => /\ Len(ret.kcalls) = 1
                 /\ Cardinality(KernelEvents(ret)) = 1
                 /\ ret.out # NoArray
        /\ ret.err = "none"
              <=> /\ IsRealObj(call.x)
                  /\ call.n = None
                  /\ AxisInRange
                  /\ call.x.dtype \in FloatDtypes
                  /\ call.type \in 1..3
                  /\ (Truthy(call.normalize) => call.normalize = <<"ortho">>)

C9_Witness ==
    /\ Returned /\ call.x.dtype = "float64" /\ call.type = 2
    /\ call.n = None /\ AxisInRange /\ call.normalize = <<"foo">>
    /\ ret.err = "ValueError" /\ ret.line = 183
    /\ NoOutput(ret)

\* C10: for an in-range axis, the kernel gets the input itself when the
\* axis is -1 or the last one, else the input with the transform axis and
\* the last axis swapped, and the result is swapped back; the length given
\* to the kernel is the size of the last axis of the array it gets, the
\* result has the input's axis order and shape, and it is transformed
\* along the requested axis.
C10_AxisHandling ==
    (Returned /\ ret.err = "none") =>
        LET x    == call.x
            d    == Len(x.shape)
            p    == Pos(x.shape, call.axis)
            kc   == ret.kcalls[1]
            last == call.axis = -1 \/ call.axis = d - 1
        IN  /\ d >= 1 /\ AxisInRange
            /\ last => (kc.arg = x /\ ret.events = <<kc.f>>)
            /\ ~last => /\ ret.events = <<"swapaxes", kc.f, "swapaxes">>
                        /\ kc.arg.shape = SwapSeq(x.shape, p, d)
                        /\ kc.arg.axes = SwapSeq(x.axes, p, d)
                        /\ kc.arg # x
            /\ kc.n = kc.arg.shape[Len(kc.arg.shape)]
            /\ kc.n = x.shape[p]
            /\ ret.out.shape = x.shape
            /\ ret.out.axes = x.axes
            /\ ret.out.dtype = x.dtype
            /\ ret.out.xf = <<[f |-> kc.f, n |-> x.shape[p], nm |-> kc.nm,
                               axis |-> p - 1]>>

C10_Witness ==
    /\ Returned /\ ret.err = "none"
    /\ Len(call.x.shape) = 3 /\ call.axis = 0
    /\ ret.events = <<"swapaxes", "ddct2", "swapaxes">>
    /\ ret.out.shape = call.x.shape

====
